---- MODULE Spec2Model ----
(***************************************************************************)
(* Model of src/main.cpp: the Passenger record and its operator<, the      *)
(* three hand-written sorts (selectionSort, insertionSort, quickSortR),    *)
(* the call of std::sort, the CSV loader and writer, and the benchmark     *)
(* driver main.                                                            *)
(*                                                                         *)
(* Text is a sequence of one-character strings; a file is the sequence of  *)
(* characters written to it, "\n" included.  Vector indices are 0-based    *)
(* as in the source; At(arr, k) reads arr[k].                              *)
(*                                                                         *)
(* Two specifications share the sort actions:                              *)
(*   SpecSort  one call of one sort on an arbitrary bounded sequence;      *)
(*   Spec      a run of main on an arbitrary bounded input file.           *)
(* Output streams are assumed to open (timings.csv is writable and the     *)
(* directory sorted/ exists).                                              *)
(***************************************************************************)
EXTENDS Integers, Sequences, FiniteSets, TLC

VARIABLES
    inputFile,      \* content of passengers.csv, or NoFile when it cannot be opened
    allPassengers,  \* main: allPassengers
    logFile,        \* content of timings.csv, or NoFile while not created
    sortedFiles,    \* function: name of a written file in sorted/ -> its content
    exitCode,       \* Running, or the value main returned
    sizeIdx,        \* position of the range-for of main in sizes (1-based)
    passengers,     \* main: passengers, the slice being benchmarked
    selSorted,      \* main: selSorted, the vector selectionSort works on
    insSorted,      \* main: insSorted, the vector insertionSort works on
    qckSorted,      \* main: qckSorted, the vector the outermost quickSortR works on
    stdSorted,      \* main: stdSorted, the vector std::sort works on
    pc,             \* position of the program
    sel,            \* locals of selectionSort: i, minIndex, j
    ins,            \* locals of insertionSort: i, key, j
    stack,          \* activation records of quickSortR, outermost first
    oob             \* TRUE once a vector element outside its vector was accessed

mainVars == <<inputFile, allPassengers, logFile, sortedFiles, exitCode, sizeIdx>>
copyVars == <<passengers, selSorted, insSorted, qckSorted, stdSorted>>
vars == <<inputFile, allPassengers, logFile, sortedFiles, exitCode, sizeIdx,
          passengers, selSorted, insSorted, qckSorted, stdSorted,
          pc, sel, ins, stack, oob>>

----------------------------------------------------------------------------
(* Bounds of the model *)

\* longest sequence handed to a sort in SpecSort
MaxLen == 4

\* most data rows of the input file in Spec
MaxRows == 3

\* how far outside its vector a stray read of quickSortR can go before the
\* process faults
MaxStray == 1

----------------------------------------------------------------------------
(* Text *)

\* marks a file that does not exist or cannot be opened; no text holds this unit
NoFile == <<"no file">>
Running == "Running"

\* code of a character, the order std::string compares by
Ord(c) ==
    CASE c = "," -> 44
      [] c = "0" -> 48 [] c = "1" -> 49 [] c = "2" -> 50 [] c = "3" -> 51
      [] c = "4" -> 52 [] c = "5" -> 53 [] c = "6" -> 54 [] c = "7" -> 55
      [] c = "8" -> 56 [] c = "9" -> 57
      [] c = "A" -> 65 [] c = "B" -> 66
      [] c = "X" -> 88 [] c = "Y" -> 89
      [] c = "x" -> 120
      [] OTHER -> 0

RECURSIVE StrLess(_, _)
\* std::string operator<: lexicographic, a proper prefix is smaller
StrLess(s, t) ==
    IF t = <<>> THEN FALSE
    ELSE IF s = <<>> THEN TRUE
    ELSE IF Ord(Head(s)) # Ord(Head(t)) THEN Ord(Head(s)) < Ord(Head(t))
    ELSE StrLess(Tail(s), Tail(t))

----------------------------------------------------------------------------
(* struct Passenger and its comparison operators *)

Passenger(fullName, cabinNumber, cabinType, destinationPort) ==
    [fullName |-> fullName, cabinNumber |-> cabinNumber,
     cabinType |-> cabinType, destinationPort |-> destinationPort]

\* a Passenger object that has not been given a value yet
NoPassenger == Passenger(<<>>, 0, <<>>, <<>>)

\* the records the sorts are tried on, and the values a stray read can yield
Passengers ==
    { Passenger(<<"A">>, 1, <<"1">>, <<"X">>),
      Passenger(<<"A">>, 1, <<"2">>, <<"X">>),
      Passenger(<<"A", "B">>, 1, <<"1">>, <<"X">>),
      Passenger(<<"B">>, 1, <<"1">>, <<"X">>),
      Passenger(<<"A">>, 1, <<"1">>, <<"Y">>),
      Passenger(<<"A">>, 2, <<"1">>, <<"X">>) }

\* faulty variant of Less: the full name is not compared
Less_NoName(a, b) ==
    IF a.cabinNumber # b.cabinNumber THEN a.cabinNumber < b.cabinNumber
    ELSE IF a.destinationPort # b.destinationPort
         THEN StrLess(a.destinationPort, b.destinationPort)
    ELSE FALSE

\* Passenger::operator<
Less(a, b) ==
    IF a.cabinNumber # b.cabinNumber THEN a.cabinNumber < b.cabinNumber
    ELSE IF a.destinationPort # b.destinationPort
         THEN StrLess(a.destinationPort, b.destinationPort)
    ELSE StrLess(a.fullName, b.fullName)

\* Passenger::operator>
Greater(a, b) == Less(b, a)

----------------------------------------------------------------------------
(* std::vector *)

At(arr, k) == arr[k + 1]

InRange(arr, k) == 0 <= k /\ k < Len(arr)

\* std::swap(arr[a], arr[b])
Swap(arr, a, b) ==
    [arr EXCEPT ![a + 1] = arr[b + 1], ![b + 1] = arr[a + 1]]

\* vector(first, last) over [from, to) of arr
Range(arr, from, to) == SubSeq(arr, from + 1, to)

\* std::copy(src.begin(), src.end(), arr.begin() + off)
CopyInto(arr, src, off) ==
    [k \in 1..Len(arr) |->
        IF off < k /\ k <= off + Len(src) THEN src[k - off] ELSE arr[k]]

\* comparison of a long with a size_t: the long is converted to unsigned, so
\* a negative value compares as a huge one
LongLessSize(i, n) == i >= 0 /\ i < n

\* the process dies on a fault
Crash ==
    /\ pc' = "crashed"
    /\ UNCHANGED <<mainVars, copyVars, sel, ins, stack>>

----------------------------------------------------------------------------
(* selectionSort, lines 69-81 *)

\* faulty variant of SelPick: the scan keeps the larger element
SelPick_Max(arr, minIndex, j) ==
    IF Less(At(arr, minIndex), At(arr, j)) THEN j ELSE minIndex

\* faulty variant of SelPick: a tie moves minIndex too
SelPick_LE(arr, minIndex, j) ==
    IF ~Less(At(arr, minIndex), At(arr, j)) THEN j ELSE minIndex

\* lines 74-76: the new minIndex after looking at arr[j]
SelPick(arr, minIndex, j) ==
    IF Less(At(arr, j), At(arr, minIndex)) THEN j ELSE minIndex

\* the call selectionSort(selSorted), line 70 and the start of the outer loop
CallSel ==
    /\ pc = "callSel"
    /\ sel' = [i |-> 0, minIndex |-> 0, j |-> 0]
    /\ pc' = "selOuter"
    /\ UNCHANGED <<mainVars, copyVars, ins, stack, oob>>

\* lines 71-73: test of the outer loop, start of the inner loop
SelOuter ==
    /\ pc = "selOuter"
    /\ IF sel.i < Len(selSorted) - 1
       THEN /\ sel' = [sel EXCEPT !.minIndex = sel.i, !.j = sel.i + 1]
            /\ pc' = "selInner"
       ELSE /\ pc' = "retSel"
            /\ sel' = sel
    /\ UNCHANGED <<mainVars, copyVars, ins, stack, oob>>

\* lines 73-77: one pass of the inner loop
SelInner ==
    /\ pc = "selInner"
    /\ IF sel.j < Len(selSorted)
       THEN IF InRange(selSorted, sel.j) /\ InRange(selSorted, sel.minIndex)
            THEN /\ sel' = [sel EXCEPT
                               !.minIndex = SelPick(selSorted, sel.minIndex, sel.j),
                               !.j = sel.j + 1]
                 /\ UNCHANGED <<pc, oob>>
            ELSE /\ oob' = TRUE
                 /\ pc' = "crashed"
                 /\ sel' = sel
       ELSE /\ pc' = "selSwap"
            /\ UNCHANGED <<sel, oob>>
    /\ UNCHANGED <<mainVars, copyVars, ins, stack>>

\* lines 78-79 and the ++i of line 71
SelSwap ==
    /\ pc = "selSwap"
    /\ IF sel.minIndex # sel.i
       THEN IF InRange(selSorted, sel.i) /\ InRange(selSorted, sel.minIndex)
            THEN /\ selSorted' = Swap(selSorted, sel.i, sel.minIndex)
                 /\ sel' = [sel EXCEPT !.i = sel.i + 1]
                 /\ pc' = "selOuter"
                 /\ oob' = oob
            ELSE /\ oob' = TRUE
                 /\ pc' = "crashed"
                 /\ UNCHANGED <<selSorted, sel>>
       ELSE /\ sel' = [sel EXCEPT !.i = sel.i + 1]
            /\ pc' = "selOuter"
            /\ UNCHANGED <<selSorted, oob>>
    /\ UNCHANGED <<mainVars, passengers, insSorted, qckSorted, stdSorted, ins, stack>>

----------------------------------------------------------------------------
(* insertionSort, lines 88-98 *)

\* line 92: arr[j] > key
InsShifts(x, key) == Greater(x, key)

\* the call insertionSort(insSorted), int i = 1
CallIns ==
    /\ pc = "callIns"
    /\ ins' = [i |-> 1, key |-> NoPassenger, j |-> 0]
    /\ pc' = "insOuter"
    /\ UNCHANGED <<mainVars, copyVars, sel, stack, oob>>

\* lines 89-91: test of the outer loop, key = arr[i], j = i - 1
InsOuter ==
    /\ pc = "insOuter"
    /\ IF ins.i < Len(insSorted)
       THEN IF InRange(insSorted, ins.i)
            THEN /\ ins' = [ins EXCEPT !.key = At(insSorted, ins.i), !.j = ins.i - 1]
                 /\ pc' = "insInner"
                 /\ oob' = oob
            ELSE /\ oob' = TRUE
                 /\ pc' = "crashed"
                 /\ ins' = ins
       ELSE /\ pc' = "retIns"
            /\ UNCHANGED <<ins, oob>>
    /\ UNCHANGED <<mainVars, copyVars, sel, stack>>

\* lines 92-96: one pass of the while loop, or the insertion of key and ++i
InsInner ==
    /\ pc = "insInner"
    /\ IF ins.j >= 0 /\ InsShifts(At(insSorted, ins.j), ins.key)
       THEN IF InRange(insSorted, ins.j + 1)
            THEN /\ insSorted' = [insSorted EXCEPT ![ins.j + 2] = At(insSorted, ins.j)]
                 /\ ins' = [ins EXCEPT !.j = ins.j - 1]
                 /\ UNCHANGED <<pc, oob>>
            ELSE /\ oob' = TRUE
                 /\ pc' = "crashed"
                 /\ UNCHANGED <<insSorted, ins>>
       ELSE IF InRange(insSorted, ins.j + 1)
            THEN /\ insSorted' = [insSorted EXCEPT ![ins.j + 2] = ins.key]
                 /\ ins' = [ins EXCEPT !.i = ins.i + 1]
                 /\ pc' = "insOuter"
                 /\ oob' = oob
            ELSE /\ oob' = TRUE
                 /\ pc' = "crashed"
                 /\ UNCHANGED <<insSorted, ins>>
    /\ UNCHANGED <<mainVars, passengers, selSorted, qckSorted, stdSorted, sel, stack>>

----------------------------------------------------------------------------
(* quickSortR, lines 105-126 *)

\* the activation record of a call on a vector of n elements: line 106 has
\* run (j = arr.size() - 1 wraps to -1 for n = 0), p is not constructed yet;
\* local is the vector left or right of lines 117 and 122 while it lives
Frame(n) == [i |-> 0, j |-> n - 1, p |-> NoPassenger, pc |-> "enter", local |-> <<>>]

top == Len(stack)

\* the vector arr refers to in the k-th activation: qckSorted of main in the
\* outermost one, the caller's left or right in a recursive one
Arr(k) == IF k = 1 THEN qckSorted ELSE stack[k - 1].local

\* activation k takes the locals f and its vector the value a
Store(k, f, a) ==
    /\ qckSorted' = IF k = 1 THEN a ELSE qckSorted
    /\ stack' = IF k = 1 THEN [stack EXCEPT ![k] = f]
                ELSE [stack EXCEPT ![k] = f, ![k - 1].local = a]

\* faulty variant of AdvanceI: the left pointer also passes elements equal to the pivot
AdvanceI_LE(x, p) == ~Less(p, x)

\* line 109: arr[i] < p
AdvanceI(x, p) == Less(x, p)

\* line 110: arr[j] > p
RetreatJ(x, p) == Greater(x, p)

\* faulty variant of AfterSwap: the right pointer is not moved
AfterSwap_KeepJ(f) == [f EXCEPT !.i = f.i + 1]

\* line 113: i++; j--
AfterSwap(f) == [f EXCEPT !.i = f.i + 1, !.j = f.j - 1]

\* a read of arr[k] outside arr is undefined: the process faults, or, within
\* MaxStray elements of the vector, the read yields whatever lies there
StrayValues(arr, k) ==
    IF -MaxStray <= k /\ k < Len(arr) + MaxStray THEN Passengers ELSE {}

\* the call quickSortR(qckSorted), line 106
CallQck ==
    /\ pc = "callQck"
    /\ stack' = <<Frame(Len(qckSorted))>>
    /\ pc' = "inQck"
    /\ UNCHANGED <<mainVars, copyVars, sel, ins, oob>>

\* line 107: Passenger p = arr[arr.size() >> 1]
QsEnter ==
    /\ pc = "inQck"
    /\ top >= 1
    /\ stack[top].pc = "enter"
    /\ LET arr == Arr(top)
           mid == Len(arr) \div 2
       IN  IF InRange(arr, mid)
           THEN /\ stack' = [stack EXCEPT ![top].p = At(arr, mid), ![top].pc = "scanI"]
                /\ UNCHANGED <<mainVars, copyVars, sel, ins, oob, pc>>
           ELSE /\ oob' = TRUE
                /\ \/ Crash
                   \/ \E g \in StrayValues(arr, mid) :
                        /\ stack' = [stack EXCEPT ![top].p = g, ![top].pc = "scanI"]
                        /\ UNCHANGED <<mainVars, copyVars, sel, ins, pc>>

\* line 109: one test of while (arr[i] < p) i++
QsScanI ==
    /\ pc = "inQck"
    /\ top >= 1
    /\ stack[top].pc = "scanI"
    /\ LET arr == Arr(top)
           f == stack[top]
           Step(x) == stack' = IF AdvanceI(x, f.p)
                               THEN [stack EXCEPT ![top].i = f.i + 1]
                               ELSE [stack EXCEPT ![top].pc = "scanJ"]
       IN  IF InRange(arr, f.i)
           THEN /\ Step(At(arr, f.i))
                /\ UNCHANGED <<mainVars, copyVars, sel, ins, oob, pc>>
           ELSE /\ oob' = TRUE
                /\ \/ Crash
                   \/ \E g \in StrayValues(arr, f.i) :
                        /\ Step(g)
                        /\ UNCHANGED <<mainVars, copyVars, sel, ins, pc>>

\* line 110: one test of while (arr[j] > p) j--
QsScanJ ==
    /\ pc = "inQck"
    /\ top >= 1
    /\ stack[top].pc = "scanJ"
    /\ LET arr == Arr(top)
           f == stack[top]
           Step(x) == stack' = IF RetreatJ(x, f.p)
                               THEN [stack EXCEPT ![top].j = f.j - 1]
                               ELSE [stack EXCEPT ![top].pc = "swap"]
       IN  IF InRange(arr, f.j)
           THEN /\ Step(At(arr, f.j))
                /\ UNCHANGED <<mainVars, copyVars, sel, ins, oob, pc>>
           ELSE /\ oob' = TRUE
                /\ \/ Crash
                   \/ \E g \in StrayValues(arr, f.j) :
                        /\ Step(g)
                        /\ UNCHANGED <<mainVars, copyVars, sel, ins, pc>>

\* lines 111-115: the swap and the test of the do-while
QsSwap ==
    /\ pc = "inQck"
    /\ top >= 1
    /\ stack[top].pc = "swap"
    /\ LET arr == Arr(top)
           f == stack[top]
           g == IF f.i <= f.j THEN AfterSwap(f) ELSE f
           next == IF g.i <= g.j THEN "scanI" ELSE "left"
       IN  IF f.i <= f.j /\ ~(InRange(arr, f.i) /\ InRange(arr, f.j))
           THEN /\ oob' = TRUE
                /\ Crash
           ELSE /\ Store(top, [g EXCEPT !.pc = next],
                         IF f.i <= f.j THEN Swap(arr, f.i, f.j) ELSE arr)
                /\ UNCHANGED <<mainVars, passengers, selSorted, insSorted,
                               stdSorted, sel, ins, oob, pc>>

\* lines 116-118: the copy left and the call quickSortR(left)
QsLeft ==
    /\ pc = "inQck"
    /\ top >= 1
    /\ stack[top].pc = "left"
    /\ LET arr == Arr(top)
           f == stack[top]
       IN  IF f.j > 0
           THEN IF f.j + 1 <= Len(arr)
                THEN /\ stack' = [stack EXCEPT ![top].pc = "leftRet",
                                               ![top].local = Range(arr, 0, f.j + 1)]
                                 \o <<Frame(f.j + 1)>>
                     /\ UNCHANGED <<mainVars, copyVars, sel, ins, oob, pc>>
                ELSE /\ oob' = TRUE
                     /\ Crash
           ELSE /\ stack' = [stack EXCEPT ![top].pc = "right"]
                /\ UNCHANGED <<mainVars, copyVars, sel, ins, oob, pc>>

\* line 119: std::copy of left back into arr, end of the scope of left
QsLeftRet ==
    /\ pc = "inQck"
    /\ top >= 1
    /\ stack[top].pc = "leftRet"
    /\ LET f == stack[top]
       IN  Store(top, [f EXCEPT !.pc = "right", !.local = <<>>],
                 CopyInto(Arr(top), f.local, 0))
    /\ UNCHANGED <<mainVars, passengers, selSorted, insSorted, stdSorted,
                   sel, ins, oob, pc>>

\* lines 121-123: the copy right and the call quickSortR(right)
QsRight ==
    /\ pc = "inQck"
    /\ top >= 1
    /\ stack[top].pc = "right"
    /\ LET arr == Arr(top)
           f == stack[top]
       IN  stack' = IF LongLessSize(f.i, Len(arr))
                    THEN [stack EXCEPT ![top].pc = "rightRet",
                                       ![top].local = Range(arr, f.i, Len(arr))]
                         \o <<Frame(Len(arr) - f.i)>>
                    ELSE [stack EXCEPT ![top].pc = "done"]
    /\ UNCHANGED <<mainVars, copyVars, sel, ins, oob, pc>>

\* line 124: std::copy of right back into arr at offset i, end of its scope
QsRightRet ==
    /\ pc = "inQck"
    /\ top >= 1
    /\ stack[top].pc = "rightRet"
    /\ LET f == stack[top]
       IN  Store(top, [f EXCEPT !.pc = "done", !.local = <<>>],
                 CopyInto(Arr(top), f.local, f.i))
    /\ UNCHANGED <<mainVars, passengers, selSorted, insSorted, stdSorted,
                   sel, ins, oob, pc>>

\* line 126: return to the caller, a quickSortR or main
QsReturn ==
    /\ pc = "inQck"
    /\ top >= 1
    /\ stack[top].pc = "done"
    /\ stack' = SubSeq(stack, 1, top - 1)
    /\ pc' = IF top = 1 THEN "retQck" ELSE pc
    /\ UNCHANGED <<mainVars, copyVars, sel, ins, oob>>

----------------------------------------------------------------------------
(* std::sort(stdSorted.begin(), stdSorted.end()), line 213 *)

RECURSIVE SeqsUpTo(_, _)
\* the sequences over S of length at most n
SeqsUpTo(S, n) ==
    IF n = 0 THEN {<<>>}
    ELSE LET shorter == SeqsUpTo(S, n - 1)
         IN  shorter \cup {Append(s, x) : s \in {t \in shorter : Len(t) = n - 1}, x \in S}

\* no element is smaller than its predecessor
IsSorted(arr) == \A k \in 1..(Len(arr) - 1) : ~Less(arr[k + 1], arr[k])

\* a and b hold the same records the same number of times
IsPermutation(a, b) ==
    /\ Len(a) = Len(b)
    /\ \A x \in {a[k] : k \in DOMAIN a} :
          Cardinality({k \in DOMAIN a : a[k] = x}) =
          Cardinality({k \in DOMAIN b : b[k] = x})

\* the rearrangements of arr
Rearrangements(arr) ==
    {[k \in DOMAIN arr |-> arr[f[k]]] :
        f \in {g \in [DOMAIN arr -> DOMAIN arr] : \A a, b \in DOMAIN arr : a # b => g[a] # g[b]}}

\* what std::sort guarantees: some rearrangement in non-descending order;
\* the order of equivalent elements is not specified
StdSort ==
    /\ pc = "callStd"
    /\ stdSorted' \in {r \in Rearrangements(stdSorted) : IsSorted(r)}
    /\ pc' = "retStd"
    /\ UNCHANGED <<mainVars, passengers, selSorted, insSorted, qckSorted,
                   sel, ins, stack, oob>>

----------------------------------------------------------------------------
(* One call of one sort on an arbitrary sequence *)

InitSort ==
    /\ inputFile = NoFile
    /\ allPassengers = <<>>
    /\ logFile = NoFile
    /\ sortedFiles = <<>>
    /\ exitCode = Running
    /\ sizeIdx = 1
    /\ passengers \in SeqsUpTo(Passengers, MaxLen)
    /\ selSorted = passengers
    /\ insSorted = passengers
    /\ qckSorted = passengers
    /\ stdSorted = passengers
    /\ pc \in {"callSel", "callIns", "callQck", "callStd"}
    /\ sel = [i |-> 0, minIndex |-> 0, j |-> 0]
    /\ ins = [i |-> 0, key |-> NoPassenger, j |-> 0]
    /\ stack = <<>>
    /\ oob = FALSE

NextSort ==
    \/ CallSel \/ SelOuter \/ SelInner \/ SelSwap
    \/ CallIns \/ InsOuter \/ InsInner
    \/ CallQck \/ QsEnter \/ QsScanI \/ QsScanJ \/ QsSwap
    \/ QsLeft \/ QsLeftRet \/ QsRight \/ QsRightRet \/ QsReturn
    \/ StdSort

SpecSort == InitSort /\ [][NextSort]_vars

(* One call of quickSortR on an arbitrary sequence; the program is
   sequential and keeps running until it returns or faults *)

InitQuick == InitSort /\ pc = "callQck"

NextQuick ==
    \/ CallQck \/ QsEnter \/ QsScanI \/ QsScanJ \/ QsSwap
    \/ QsLeft \/ QsLeftRet \/ QsRight \/ QsRightRet \/ QsReturn

SpecQuickFair == InitQuick /\ [][NextQuick]_vars /\ WF_vars(NextQuick)

----------------------------------------------------------------------------
(* Numbers as text *)

IsDigit(c) == 48 <= Ord(c) /\ Ord(c) <= 57

DigitVal(c) == Ord(c) - 48

DigitChar(d) ==
    CASE d = 0 -> "0" [] d = 1 -> "1" [] d = 2 -> "2" [] d = 3 -> "3"
      [] d = 4 -> "4" [] d = 5 -> "5" [] d = 6 -> "6" [] d = 7 -> "7"
      [] d = 8 -> "8" [] d = 9 -> "9"

RECURSIVE IntToStr(_)
\* operator<<(int) and std::to_string of a non-negative int
IntToStr(n) ==
    IF n < 10 THEN <<DigitChar(n)>>
    ELSE IntToStr(n \div 10) \o <<DigitChar(n % 10)>>

RECURSIVE StoiDigits(_, _)
\* the value of the leading digits of s, after acc
StoiDigits(s, acc) ==
    IF s = <<>> \/ ~IsDigit(Head(s)) THEN acc
    ELSE StoiDigits(Tail(s), 10 * acc + DigitVal(Head(s)))

\* std::stoi on unsigned text without leading blanks: the leading digits are
\* converted and the rest ignored; without a leading digit it throws
Stoi(s) ==
    IF s = <<>> \/ ~IsDigit(Head(s))
    THEN [ok |-> FALSE, value |-> 0]
    ELSE [ok |-> TRUE, value |-> StoiDigits(s, 0)]

----------------------------------------------------------------------------
(* std::getline *)

RECURSIVE Before(_, _)
\* the characters of s in front of the first d
Before(s, d) ==
    IF s = <<>> \/ Head(s) = d THEN <<>>
    ELSE <<Head(s)>> \o Before(Tail(s), d)

RECURSIVE After(_, _)
\* the characters of s behind the first d
After(s, d) ==
    IF s = <<>> THEN <<>>
    ELSE IF Head(s) = d THEN Tail(s)
    ELSE After(Tail(s), d)

RECURSIVE Lines(_)
\* the lines while (std::getline(file, line)) yields
Lines(s) ==
    IF s = <<>> THEN <<>>
    ELSE <<Before(s, "\n")>> \o Lines(After(s, "\n"))

----------------------------------------------------------------------------
(* loadPassengers, lines 134-157 *)

\* lines 141-154: one data row to a Passenger
ParseRow(line) ==
    LET fullName == Before(line, ",")
        rest1 == After(line, ",")
        cabinNumberStr == Before(rest1, ",")
        rest2 == After(rest1, ",")
        cabinType == Before(rest2, ",")
        rest3 == After(rest2, ",")
        destinationPort == Before(rest3, ",")
        n == Stoi(cabinNumberStr)
    IN  [ok |-> n.ok,
         passenger |-> Passenger(fullName, n.value, cabinType, destinationPort)]

\* the result of loadPassengers on a file; ok is FALSE when std::stoi throws
LoadPassengers(file) ==
    IF file = NoFile THEN [ok |-> TRUE, passengers |-> <<>>]
    ELSE LET lines == Lines(file)
             rows == IF lines = <<>> THEN <<>> ELSE Tail(lines)
             parsed == [k \in DOMAIN rows |-> ParseRow(rows[k])]
         IN  [ok |-> \A k \in DOMAIN rows : parsed[k].ok,
              passengers |-> [k \in DOMAIN rows |-> parsed[k].passenger]]

----------------------------------------------------------------------------
(* savePassengers, lines 165-171 *)

\* the header literal of line 167 (in Russian in the source), one unit of text
PassengerHeader == <<"FIO passazhira,Nomer kayuty,Tip kayuty,Port naznacheniya">>

\* line 169: one record as text
RowText(p) ==
    p.fullName \o <<",">> \o IntToStr(p.cabinNumber) \o <<",">>
        \o p.cabinType \o <<",">> \o p.destinationPort \o <<"\n">>

RECURSIVE RowsText(_)
\* lines 168-170
RowsText(ps) ==
    IF ps = <<>> THEN <<>> ELSE RowText(Head(ps)) \o RowsText(Tail(ps))

\* what savePassengers writes for the vector ps
SaveText(ps) == PassengerHeader \o <<"\n">> \o RowsText(ps)

\* the files of sorted/ after savePassengers(filename, ps)
SavePassengers(files, filename, ps) ==
    [n \in DOMAIN files \cup {filename} |->
        IF n = filename THEN SaveText(ps) ELSE files[n]]

----------------------------------------------------------------------------
(* main, lines 177-223 *)

\* line 179: the benchmark sizes, scaled down from 100 .. 100000
sizes == <<2, 3>>

\* the values a duration in milliseconds can take
Durations == {0, 1}

\* the content of passengers.csv: the header and the rows, a line each
FileOf(rows) ==
    LET RECURSIVE Join(_)
        Join(rs) == IF rs = <<>> THEN <<>> ELSE Head(rs) \o <<"\n">> \o Join(Tail(rs))
    IN  PassengerHeader \o <<"\n">> \o Join(rows)

\* the data rows an input file is made of; the last one has no number
InputRows ==
    { <<"B", ",", "2", ",", "1", ",", "X">>,
      <<"A", ",", "1", "0", ",", "1", ",", "X">>,
      <<"A", ",", "1", "0", ",", "2", ",", "X">>,
      <<"A", ",", "x", ",", "1", ",", "X">> }

\* the records a read past the end of allPassengers can yield
StrayRecords ==
    { Passenger(<<"A">>, 1, <<"1">>, <<"X">>),
      Passenger(<<"B">>, 1, <<"1">>, <<"X">>) }

\* the header literal of line 184, one unit of text
LogHeader == <<"Size,SelectionSort,InsertionSort,QuickSort,StdSort">>

\* the file names of lines 218-220
FileName(code, size) == <<"sorted/", code, "_">> \o IntToStr(size) \o <<".csv">>

\* faulty variant of LoadFailed: an empty dataset is not noticed
LoadFailed_Never(loaded) == FALSE

\* line 181: allPassengers.empty()
LoadFailed(loaded) == loaded = <<>>

\* faulty variant of Prefix: the last size records are taken
Prefix_Last(all, size) == SubSeq(all, Len(all) - size + 1, Len(all))

\* line 187 for size <= all.size(): the first size records
Prefix(all, size) == SubSeq(all, 1, size)

\* line 180: the call of loadPassengers; an exception of std::stoi is not
\* caught and ends the process
Load ==
    /\ pc = "load"
    /\ LET r == LoadPassengers(inputFile)
       IN  IF r.ok
           THEN /\ allPassengers' = r.passengers
                /\ pc' = "checkLoaded"
           ELSE /\ allPassengers' = allPassengers
                /\ pc' = "crashed"
    /\ UNCHANGED <<inputFile, logFile, sortedFiles, exitCode, sizeIdx,
                   copyVars, sel, ins, stack, oob>>

\* line 181: return 1
ReturnEmpty ==
    /\ pc = "checkLoaded"
    /\ LoadFailed(allPassengers)
    /\ exitCode' = 1
    /\ pc' = "exit"
    /\ UNCHANGED <<inputFile, allPassengers, logFile, sortedFiles, sizeIdx,
                   copyVars, sel, ins, stack, oob>>

\* lines 183-184: timings.csv is created and the header written
OpenLog ==
    /\ pc = "checkLoaded"
    /\ ~LoadFailed(allPassengers)
    /\ logFile' = LogHeader
    /\ pc' = "forSizes"
    /\ UNCHANGED <<inputFile, allPassengers, sortedFiles, exitCode, sizeIdx,
                   copyVars, sel, ins, stack, oob>>

\* lines 186-192: the next size, the slice and its four copies; the iterator
\* begin() + size is not checked against end(), so a size beyond the dataset
\* reads past the end of the vector: the process faults or copies what lies
\* there
Slice ==
    /\ pc = "forSizes"
    /\ sizeIdx <= Len(sizes)
    /\ LET size == sizes[sizeIdx]
           Copies(slice) ==
               /\ passengers' = slice
               /\ selSorted' = slice
               /\ insSorted' = slice
               /\ qckSorted' = slice
               /\ stdSorted' = slice
               /\ pc' = "callSel"
               /\ UNCHANGED <<mainVars, sel, ins, stack>>
       IN  IF size <= Len(allPassengers)
           THEN /\ Copies(Prefix(allPassengers, size))
                /\ oob' = oob
           ELSE /\ oob' = TRUE
                /\ \/ Crash
                   \/ \E stray \in [1..(size - Len(allPassengers)) -> StrayRecords] :
                        Copies(allPassengers \o stray)

\* line 222: return 0 after the last size
ReturnOk ==
    /\ pc = "forSizes"
    /\ sizeIdx > Len(sizes)
    /\ exitCode' = 0
    /\ pc' = "exit"
    /\ UNCHANGED <<inputFile, allPassengers, logFile, sortedFiles, sizeIdx,
                   copyVars, sel, ins, stack, oob>>

\* the program writes text to timings.csv and goes on at next
Log(text, next) ==
    /\ logFile' = logFile \o text
    /\ pc' = next
    /\ UNCHANGED <<inputFile, allPassengers, sortedFiles, exitCode, sizeIdx,
                   copyVars, sel, ins, stack, oob>>

\* lines 196-198
LogSel ==
    /\ pc = "retSel"
    /\ \E timing \in Durations :
         Log(IntToStr(sizes[sizeIdx]) \o <<",">> \o IntToStr(timing) \o <<",">>, "callIns")

\* lines 202-204
LogIns ==
    /\ pc = "retIns"
    /\ \E timing \in Durations : Log(IntToStr(timing) \o <<",">>, "callQck")

\* lines 208-210
LogQck ==
    /\ pc = "retQck"
    /\ \E timing \in Durations : Log(IntToStr(timing) \o <<",">>, "callStd")

\* lines 214-216
LogStd ==
    /\ pc = "retStd"
    /\ \E timing \in Durations : Log(IntToStr(timing) \o <<"\n">>, "saveSs")

\* the program saves ps under the short code and goes on at next
Save(code, ps, next) ==
    /\ sortedFiles' = SavePassengers(sortedFiles, FileName(code, sizes[sizeIdx]), ps)
    /\ pc' = next
    /\ UNCHANGED <<inputFile, allPassengers, logFile, exitCode,
                   copyVars, sel, ins, stack, oob>>

\* line 218
SaveSs ==
    /\ pc = "saveSs"
    /\ Save("ss", selSorted, "saveIs")
    /\ sizeIdx' = sizeIdx

\* line 219
SaveIs ==
    /\ pc = "saveIs"
    /\ Save("is", insSorted, "saveQs")
    /\ sizeIdx' = sizeIdx

\* line 220 and the step of the range-for to the next size
SaveQs ==
    /\ pc = "saveQs"
    /\ Save("qs", qckSorted, "forSizes")
    /\ sizeIdx' = sizeIdx + 1

Init ==
    /\ inputFile \in {NoFile} \cup {FileOf(rows) : rows \in SeqsUpTo(InputRows, MaxRows)}
    /\ allPassengers = <<>>
    /\ logFile = NoFile
    /\ sortedFiles = <<>>
    /\ exitCode = Running
    /\ sizeIdx = 1
    /\ passengers = <<>>
    /\ selSorted = <<>>
    /\ insSorted = <<>>
    /\ qckSorted = <<>>
    /\ stdSorted = <<>>
    /\ pc = "load"
    /\ sel = [i |-> 0, minIndex |-> 0, j |-> 0]
    /\ ins = [i |-> 0, key |-> NoPassenger, j |-> 0]
    /\ stack = <<>>
    /\ oob = FALSE

Next ==
    \/ Load \/ ReturnEmpty \/ OpenLog \/ Slice \/ ReturnOk
    \/ CallSel \/ SelOuter \/ SelInner \/ SelSwap \/ LogSel
    \/ CallIns \/ InsOuter \/ InsInner \/ LogIns
    \/ CallQck \/ QsEnter \/ QsScanI \/ QsScanJ \/ QsSwap
    \/ QsLeft \/ QsLeftRet \/ QsRight \/ QsRightRet \/ QsReturn \/ LogQck
    \/ StdSort \/ LogStd
    \/ SaveSs \/ SaveIs \/ SaveQs

Spec == Init /\ [][Next]_vars

----------------------------------------------------------------------------
(* Properties *)

\* a and b are equivalent under operator<
Tie(a, b) == ~Less(a, b) /\ ~Less(b, a)

\* a and b agree on the three fields operator< looks at
SameKey(a, b) ==
    /\ a.cabinNumber = b.cabinNumber
    /\ a.destinationPort = b.destinationPort
    /\ a.fullName = b.fullName

\* C1: each of selectionSort, insertionSort, quickSortR and std::sort leaves
\* its vector a permutation of the sequence it was given (same records, all
\* four fields, the same number of times) in which no element is smaller
\* under operator< than its predecessor: so it is when the sort has
\* returned, and also where a call of quickSortR has ended in a fault.
C1_SortedPermutation ==
    /\ pc = "retSel" => IsSorted(selSorted) /\ IsPermutation(selSorted, passengers)
    /\ pc = "retIns" => IsSorted(insSorted) /\ IsPermutation(insSorted, passengers)
    /\ pc = "retQck" => IsSorted(qckSorted) /\ IsPermutation(qckSorted, passengers)
    /\ pc = "retStd" => IsSorted(stdSorted) /\ IsPermutation(stdSorted, passengers)
    /\ (pc = "crashed" /\ stack # <<>>) =>
          IsSorted(qckSorted) /\ IsPermutation(qckSorted, passengers)

\* quickSortR has returned from an unsorted sequence of at least three
\* records, which it had to rearrange
C1_Witness ==
    /\ pc = "retQck"
    /\ Len(passengers) >= 3
    /\ ~IsSorted(passengers)
    /\ qckSorted # passengers

\* C2 (as claimed): on an empty or single-element sequence each of
\* selectionSort, insertionSort and quickSortR accesses no element outside
\* the sequence, does not fault and leaves the sequence unchanged.
C2_BoundaryNoOp ==
    Len(passengers) <= 1 =>
        /\ ~oob
        /\ pc # "crashed"
        /\ selSorted = passengers
        /\ insSorted = passengers
        /\ qckSorted = passengers

\* C3 (as claimed): a sequence that is already non-decreasing is returned
\* unchanged, field for field, by selectionSort, insertionSort and quickSortR.
C3_Idempotent ==
    IsSorted(passengers) =>
        /\ pc = "retSel" => selSorted = passengers
        /\ pc = "retIns" => insSorted = passengers
        /\ pc = "retQck" => qckSorted = passengers

\* C3 (amended): a sequence that is already non-decreasing is returned
\* unchanged, field for field, by selectionSort and insertionSort; quickSortR
\* returns the same records with the same cabin number, port and name at
\* every position, but may exchange records that tie under operator< and
\* differ in cabin class.
C3_IdempotentUpToTies ==
    IsSorted(passengers) =>
        /\ pc = "retSel" => selSorted = passengers
        /\ pc = "retIns" => insSorted = passengers
        /\ (pc = "retQck" \/ (pc = "crashed" /\ stack # <<>>)) =>
              /\ IsPermutation(qckSorted, passengers)
              /\ \A k \in DOMAIN passengers : SameKey(qckSorted[k], passengers[k])

\* a sort has returned from a sorted sequence in which two neighbours tie
\* and differ in cabin class
C3_Witness ==
    /\ pc \in {"retSel", "retIns", "retQck"}
    /\ IsSorted(passengers)
    /\ \E k \in 1..(Len(passengers) - 1) :
          /\ Tie(passengers[k], passengers[k + 1])
          /\ passengers[k].cabinType # passengers[k + 1].cabinType

\* C8 (as claimed): two records of the sequence being sorted of which
\* neither is smaller than the other are equal in all four fields.
C8_TiesAreDuplicates ==
    \A x, y \in DOMAIN passengers :
        Tie(passengers[x], passengers[y]) => passengers[x] = passengers[y]

\* C8 (amended): two records of the sequence being sorted of which neither
\* is smaller than the other are equal in cabin number, destination port and
\* full name; their cabin class may differ.
C8_TiesShareKey ==
    \A x, y \in DOMAIN passengers :
        Tie(passengers[x], passengers[y]) => SameKey(passengers[x], passengers[y])

\* a sort has compared and returned a sequence holding two records that tie
\* and two that differ in name only
C8_Witness ==
    /\ pc \in {"retSel", "retIns", "retQck"}
    /\ \E x, y \in DOMAIN passengers :
          /\ x # y
          /\ Tie(passengers[x], passengers[y])
    /\ \E x, y \in DOMAIN passengers :
          /\ passengers[x].fullName # passengers[y].fullName
          /\ passengers[x].cabinNumber = passengers[y].cabinNumber
          /\ passengers[x].destinationPort = passengers[y].destinationPort

\* C9: in every activation of quickSortR started on a non-empty sequence,
\* recursive ones included, the index is inside the vector whenever arr[i]
\* or arr[j] is read (lines 109, 110) or swapped (line 112), and no access
\* outside a vector has happened.
C9_PointersInRange ==
    (pc = "inQck" /\ Len(qckSorted) >= 1) =>
        /\ ~oob
        /\ \A k \in 1..top :
              LET f == stack[k]
                  n == Len(Arr(k))
              IN  /\ f.pc = "scanI" => 0 <= f.i /\ f.i <= n - 1
                  /\ f.pc = "scanJ" => 0 <= f.j /\ f.j <= n - 1
                  /\ (f.pc = "swap" /\ f.i <= f.j) =>
                        0 <= f.i /\ f.i <= n - 1 /\ 0 <= f.j /\ f.j <= n - 1

\* a recursive activation is about to read arr[j] in a vector of which at
\* least two records tie with the pivot
C9_Witness ==
    /\ pc = "inQck"
    /\ top >= 2
    /\ stack[top].pc = "scanJ"
    /\ Cardinality({k \in DOMAIN Arr(top) : Tie(Arr(top)[k], stack[top].p)}) >= 2

\* in every activation of quickSortR started on a non-empty sequence of
\* length n, once the partition loop has ended j <= n - 2 and i >= 1, and
\* every recursive activation works on a non-empty vector strictly shorter
\* than its caller's
CallsShrink ==
    (pc = "inQck" /\ Len(qckSorted) >= 1) =>
        \A k \in 1..top :
            LET f == stack[k]
                n == Len(Arr(k))
            IN  /\ n >= 1
                /\ k > 1 => n < Len(Arr(k - 1))
                /\ f.pc \in {"left", "leftRet", "right", "rightRet", "done"} =>
                      f.j <= n - 2 /\ f.i >= 1

\* C10: a call of quickSortR on a non-empty sequence returns; on the way,
\* whenever the partition loop of an activation on n elements has ended,
\* j <= n - 2 and i >= 1, and every recursive activation works on a
\* non-empty vector strictly shorter than its caller's.
C10_Terminates ==
    /\ []CallsShrink
    /\ (pc = "callQck" /\ Len(qckSorted) >= 1) ~> (pc = "retQck")

\* a recursive activation, two calls deep, has finished its partition loop
C10_Witness ==
    /\ pc = "inQck"
    /\ top >= 3
    /\ stack[top].pc = "left"

----------------------------------------------------------------------------
(* Properties of main *)

\* the largest configured size
MaxSize == sizes[Len(sizes)]

\* a duration as written to the log
DurationTexts == {IntToStr(t) : t \in Durations}

\* the row of the timing log for the k-th size: the size and four durations
IsLogRow(line, k) ==
    \E t1, t2, t3, t4 \in DurationTexts :
        line = IntToStr(sizes[k]) \o <<",">> \o t1 \o <<",">> \o t2
               \o <<",">> \o t3 \o <<",">> \o t4

\* C4 (as claimed): after a completed run (on a dataset large enough for
\* every size) the timing log is the header line
\* Size,SelectionSort,InsertionSort,QuickSort,StdSort followed by one line
\* per configured size, in list order, holding the size and four durations.
C4_LogFormat ==
    (pc = "exit" /\ exitCode = 0 /\ Len(allPassengers) >= MaxSize) =>
        LET lines == Lines(logFile)
        IN  /\ Len(lines) = 1 + Len(sizes)
            /\ lines[1] = LogHeader
            /\ \A k \in 1..Len(sizes) : IsLogRow(lines[k + 1], k)

\* the names of the files a complete run is to write
ExpectedFiles == {FileName(code, sizes[k]) : code \in {"ss", "is", "qs"}, k \in 1..Len(sizes)}

\* the size in the name of a written file
SizeOf(name) == Stoi(SubSeq(name, 4, Len(name))).value

\* C5: after a completed run on a dataset with at least as many records as
\* the largest size, exactly the files ss_s, is_s and qs_s of every size s
\* exist, and each holds the header line followed by the first s records of
\* the loaded dataset in non-decreasing order, one per line; the loaded
\* dataset is what the loader returned, unmodified.
C5_SortedFilesWritten ==
    (pc = "exit" /\ exitCode = 0 /\ Len(allPassengers) >= MaxSize) =>
        /\ allPassengers = LoadPassengers(inputFile).passengers
        /\ DOMAIN sortedFiles = ExpectedFiles
        /\ \A name \in DOMAIN sortedFiles :
              LET saved == LoadPassengers(sortedFiles[name]).passengers
              IN  /\ sortedFiles[name] = PassengerHeader \o <<"\n">> \o RowsText(saved)
                  /\ IsSorted(saved)
                  /\ IsPermutation(saved, SubSeq(allPassengers, 1, SizeOf(name)))

\* a run on a dataset large enough for every size has completed, and the
\* dataset was not in order
C5_Witness ==
    /\ pc = "exit"
    /\ exitCode = 0
    /\ Len(allPassengers) >= MaxSize
    /\ ~IsSorted(allPassengers)

\* C6 (as claimed): when the size of the current iteration exceeds the
\* number of loaded records, the run does not get past the slicing step
\* other than by a fault.
C6_OversizeDetected ==
    (/\ pc \notin {"load", "checkLoaded", "forSizes", "exit"}
     /\ sizes[sizeIdx] > Len(allPassengers)) => pc = "crashed"

\* C7: when passengers.csv cannot be opened, the loader returns an empty
\* vector, main returns 1, and neither timings.csv nor any file of sorted/
\* is ever created.
C7_NoOutputWithoutInput ==
    inputFile = NoFile =>
        /\ allPassengers = <<>>
        /\ logFile = NoFile
        /\ sortedFiles = <<>>
        /\ pc \in {"load", "checkLoaded", "exit"}
        /\ pc = "exit" => exitCode = 1
        /\ pc # "exit" => exitCode = Running

\* main has returned after the input file could not be opened
C7_Witness ==
    /\ inputFile = NoFile
    /\ pc = "exit"
    /\ exitCode = 1

====
